---- MODULE Spec2Model ----
(***************************************************************************)
(* Model of gaze as a state machine: the port history tracker (package    *)
(* history, Tracker) and the terminal UI that drives it (package ui).     *)
(* One Tracker.Update call is one step: it builds the port map of the     *)
(* snapshot, runs the open loop and the close loop in an arbitrary map    *)
(* iteration order, and ends with cleanup.  One message handled by        *)
(* Model.Update is one step as well.                                      *)
(***************************************************************************)
EXTENDS Integers, Sequences, FiniteSets, TLC

\* ------------------------------------------------------------------ bounds
MaxPort == 2            \* ports 0..MaxPort are observable
MaxPid == 2             \* pids 1..MaxPid
MaxObs == 2             \* longest snapshot handed to Tracker.Update
MaxClock == 3           \* the clock (and so the number of cycles) stops here
MaxPortClock == 4       \* the cycles in the life of one port
MaxEventsCap == 2       \* NewTracker is called with maxEvents in 1..MaxEventsCap
MaxHistoriesCap == 2    \* NewTracker is called with maxHistories in 1..MaxHistoriesCap
MaxLimit == 3           \* GetRecentEvents is asked for limits up to MaxLimit
MaxUiCycles == 2        \* scan results the UI reconciles
MaxInFlight == 2        \* scans running at once
MaxExports == 1         \* exports running at once
MaxScanPid == 1         \* a scan finds pids 0..MaxScanPid, 0 for a connection without pid

Ports == 0..MaxPort
PIDs == 1..MaxPid

EventPortOpened == "OPENED"
EventPortClosed == "CLOSED"

\* process.Name() of a pid as the scanner resolves it
ProcessOf(pid) ==
    IF pid = 0 THEN "Unknown" ELSE IF pid % 2 = 1 THEN "nginx" ELSE "sshd"

\* scanner.PortInfo, the fields Tracker reads
PortInfo == {[Port |-> p, PID |-> q, Process |-> ProcessOf(q)] : p \in Ports, q \in PIDs}

\* the snapshots ([]scanner.PortInfo) a caller may pass
Snapshots == UNION {[1..n -> PortInfo] : n \in 0..MaxObs}

VARIABLES
    history,        \* Tracker.history: port -> PortHistory
    events,         \* Tracker.events: the global event log
    maxEvents,      \* Tracker.maxEvents
    maxHistories,   \* Tracker.maxHistories
    clock,          \* the value time.Now() returned to the last cycle
    lastObs,        \* the snapshot the last Update was called with
    cycleLog,       \* the last three cycles: ports observed, events emitted, records evicted
    firstEver,      \* port -> the time of the first cycle that observed it (0: never)
    call,           \* the last call of addEvent or of a query: arguments and result
    model,          \* ui.Model m: ports, err, sortColumn, sortAscending, viewMode, table rows
    pendingTicks,   \* tea.Tick timers that have not fired yet
    pendingScans,   \* scanPorts commands that have not delivered their message yet
    lastMsg,        \* the type of the message Model.Update handled last
    inFlight,       \* the scans in flight in the order they were started: TRUE for
                    \* one whose result a later scan has already delivered
    pendingExports, \* exportData commands that have not delivered their message yet
    running         \* FALSE once tea.Quit was returned

trackerVars == <<history, events, maxEvents, maxHistories, clock, lastObs, cycleLog, firstEver>>

uiVars == <<model, pendingTicks, pendingScans, lastMsg, inFlight, pendingExports, running>>

vars == <<history, events, maxEvents, maxHistories, clock, lastObs, cycleLog, firstEver,
          call, model, pendingTicks, pendingScans, lastMsg,
          inFlight, pendingExports, running>>

\* ------------------------------------------------------------------ helpers
Min(a, b) == IF a < b THEN a ELSE b

\* all orders in which a Go map with key set S may be ranged over
Orders(S) == {f \in [1..Cardinality(S) -> S] : \A i, j \in DOMAIN f : i # j => f[i] # f[j]}

Range(s) == {s[i] : i \in DOMAIN s}

\* the last n elements of s (all of s when it is shorter)
LastN(s, n) == IF Len(s) <= n THEN s ELSE SubSeq(s, Len(s) - n + 1, Len(s))

\* m with key k set to v (m[k] = v on a Go map)
MapPut(m, k, v) == [q \in DOMAIN m \cup {k} |-> IF q = k THEN v ELSE m[q]]

\* delete(m, k)
MapDelete(m, k) == [q \in DOMAIN m \ {k} |-> m[q]]

PortEvent(port, pid, process, eventType, now) ==
    [Port |-> port, PID |-> pid, Process |-> process, EventType |-> eventType, Timestamp |-> now]

\* ------------------------------------------------------------------ Tracker
\* addEvent with the trim left out
addEventUntrimmed(evs, event, maxEv) == Append(evs, event)

\* addEvent trimming from the wrong end: the oldest events stay
addEventKeepsOldest(evs, event, maxEv) ==
    LET appended == Append(evs, event)
    IN IF Len(appended) > maxEv
       THEN SubSeq(appended, 1, maxEv)
       ELSE appended

\* addEvent putting the new event in front of the log
addEventPrepends(evs, event, maxEv) ==
    LET prepended == <<event>> \o evs
    IN IF Len(prepended) > maxEv
       THEN SubSeq(prepended, Len(prepended) - maxEv + 1, Len(prepended))
       ELSE prepended

\* addEvent: append, then keep only the most recent maxEv events
addEvent(evs, event, maxEv) ==
    LET appended == Append(evs, event)
    IN IF Len(appended) > maxEv
       THEN SubSeq(appended, Len(appended) - maxEv + 1, Len(appended))
       ELSE appended

\* the loop "for _, p := range currentPorts { currentPortMap[p.Port] = p }":
\* a later entry overwrites an earlier one with the same port
currentPortMapOf(currentPorts) ==
    [port \in {currentPorts[i].Port : i \in DOMAIN currentPorts} |->
        currentPorts[CHOOSE i \in DOMAIN currentPorts :
                        /\ currentPorts[i].Port = port
                        /\ \A j \in DOMAIN currentPorts : currentPorts[j].Port = port => j <= i]]

\* reopen that forgets to count the activation
reopenUncounted(h, event) ==
    [h EXCEPT !.IsActive = TRUE,
              !.Events = Append(@, event)]

\* reopen that restarts FirstSeen with the activation
reopenResetsFirstSeen(h, event) ==
    [h EXCEPT !.IsActive = TRUE,
              !.OpenCount = @ + 1,
              !.FirstSeen = event.Timestamp,
              !.Events = Append(@, event)]

\* reopen that leaves the event out of the record
reopenNoEvent(h, event) ==
    [h EXCEPT !.IsActive = TRUE,
              !.OpenCount = @ + 1]

\* a closed port is seen again: lines "h.IsActive = true ... h.Events = append"
reopen(h, event) ==
    [h EXCEPT !.IsActive = TRUE,
              !.OpenCount = @ + 1,
              !.Events = Append(@, event)]

\* "New port detected": the PortHistory literal with its first event appended
newHistory(port, info, now, event) ==
    [Port |-> port, PID |-> info.PID, Process |-> info.Process,
     FirstSeen |-> now, LastSeen |-> now, IsActive |-> TRUE,
     OpenCount |-> 1, Events |-> <<event>>]

\* body of the loop "Check for newly opened ports" for one port.
\* t is [history, events, emitted]: the tracker plus the events this cycle produced
openBody(t, port, info, now, maxEv) ==
    LET event == PortEvent(port, info.PID, info.Process, EventPortOpened, now)
    IN IF port \in DOMAIN t.history
       THEN LET h == [t.history[port] EXCEPT !.LastSeen = now]
            IN IF ~h.IsActive
               THEN [history |-> MapPut(t.history, port, reopen(h, event)),
                     events |-> addEvent(t.events, event, maxEv),
                     emitted |-> Append(t.emitted, event)]
               ELSE [t EXCEPT !.history = MapPut(t.history, port, h)]
       ELSE [history |-> MapPut(t.history, port, newHistory(port, info, now, event)),
             events |-> addEvent(t.events, event, maxEv),
             emitted |-> Append(t.emitted, event)]

RECURSIVE openLoop(_, _, _, _, _)
openLoop(t, order, currentPortMap, now, maxEv) ==
    IF order = <<>> THEN t
    ELSE openLoop(openBody(t, Head(order), currentPortMap[Head(order)], now, maxEv),
                  Tail(order), currentPortMap, now, maxEv)

\* the close test without "if h.IsActive"
hasClosedIgnoringActive(h, port, currentPortMap) ==
    port \notin DOMAIN currentPortMap

\* the test of the close loop: "if h.IsActive { if _, stillActive := ...; !stillActive"
hasClosed(h, port, currentPortMap) ==
    h.IsActive /\ port \notin DOMAIN currentPortMap

\* closing that leaves the record active
closeHistoryStillActive(h, now, event) ==
    [h EXCEPT !.LastSeen = now,
              !.Events = Append(@, event)]

\* closing that leaves the event out of the record
closeHistoryNoEvent(h, now, event) ==
    [h EXCEPT !.IsActive = FALSE,
              !.LastSeen = now]

\* closing that leaves LastSeen at the last observation
closeHistoryKeepsLastSeen(h, now, event) ==
    [h EXCEPT !.IsActive = FALSE,
              !.Events = Append(@, event)]

\* "Port has closed": the record is marked inactive and gets the event
closeHistory(h, now, event) ==
    [h EXCEPT !.IsActive = FALSE,
              !.LastSeen = now,
              !.Events = Append(@, event)]

\* body of the loop "Check for closed ports" for one port
closeBody(t, port, currentPortMap, now, maxEv) ==
    LET h == t.history[port]
        event == PortEvent(port, h.PID, h.Process, EventPortClosed, now)
    IN IF hasClosed(h, port, currentPortMap)
       THEN [history |-> MapPut(t.history, port, closeHistory(h, now, event)),
             events |-> addEvent(t.events, event, maxEv),
             emitted |-> Append(t.emitted, event)]
       ELSE t

RECURSIVE closeLoop(_, _, _, _, _)
closeLoop(t, order, currentPortMap, now, maxEv) ==
    IF order = <<>> THEN t
    ELSE closeLoop(closeBody(t, Head(order), currentPortMap, now, maxEv),
                   Tail(order), currentPortMap, now, maxEv)

\* cleanup collecting every record, active ones too
inactiveOfAll(hist) == DOMAIN hist

\* the records cleanup collects: the inactive ones
inactiveOf(hist) == {port \in DOMAIN hist : ~hist[port].IsActive}

\* the inactive records sorted newest first
sortedInactiveNewestFirst(hist) ==
    {s \in Orders(inactiveOf(hist)) :
        \A i, j \in DOMAIN s : i < j => ~(hist[s[i]].LastSeen < hist[s[j]].LastSeen)}

\* the results sort.Slice may leave in `inactive`: any order of the inactive
\* records with LastSeen ascending (the sort is not stable and its input
\* order is the map's iteration order)
sortedInactive(hist) ==
    {s \in Orders(inactiveOf(hist)) :
        \A i, j \in DOMAIN s : i < j => ~(hist[s[j]].LastSeen < hist[s[i]].LastSeen)}

RECURSIVE removeAll(_, _)
removeAll(hist, ports) ==
    IF ports = <<>> THEN hist ELSE removeAll(MapDelete(hist, Head(ports)), Tail(ports))

\* cleanup removing one record too few
toEvictOneShort(hist, inactive, maxHist) ==
    IF Cardinality(DOMAIN hist) <= maxHist
    THEN <<>>
    ELSE LET toRemove == Cardinality(DOMAIN hist) - maxHist - 1
         IN SubSeq(inactive, 1, Min(toRemove, Len(inactive)))

\* the ports cleanup deletes, given the sorted slice
toEvict(hist, inactive, maxHist) ==
    IF Cardinality(DOMAIN hist) <= maxHist
    THEN <<>>
    ELSE LET toRemove == Cardinality(DOMAIN hist) - maxHist
         IN SubSeq(inactive, 1, Min(toRemove, Len(inactive)))

\* cleanup returns before it collects and sorts when the store is within
\* maxHistories; otherwise `inactive` is one of the sorted results
cleanupOrders(hist, maxHist) ==
    IF Cardinality(DOMAIN hist) <= maxHist THEN {<<>>} ELSE sortedInactive(hist)

\* GetRecentEvents returning the oldest events instead of the newest
GetRecentEventsFromFront(evs, limit) ==
    LET lim == IF limit <= 0 \/ limit > Len(evs) THEN Len(evs) ELSE limit
    IN SubSeq(evs, 1, lim)

\* GetRecentEvents(limit): t.events[start:]
GetRecentEvents(evs, limit) ==
    LET lim == IF limit <= 0 \/ limit > Len(evs) THEN Len(evs) ELSE limit
        start == IF Len(evs) - lim < 0 THEN 0 ELSE Len(evs) - lim
    IN SubSeq(evs, start + 1, Len(evs))

\* GetAllHistory sorting oldest first
GetAllHistoryOldestFirst(hist) ==
    {s \in Orders(DOMAIN hist) :
        \A i, j \in DOMAIN s : i < j => ~(hist[s[j]].LastSeen < hist[s[i]].LastSeen)}

\* GetAllHistory(): the slices of pointers it may return, a pointer written as
\* the port of its record.  The records are collected in map order and sorted
\* with sort.Slice on LastSeen.After, which leaves ties in any order
GetAllHistory(hist) ==
    {s \in Orders(DOMAIN hist) :
        \A i, j \in DOMAIN s : i < j => ~(hist[s[j]].LastSeen > hist[s[i]].LastSeen)}

\* the loop of GetStats: activeCount++ for each active record
RECURSIVE activeCount(_, _)
activeCount(hist, order) ==
    IF order = <<>> THEN 0
    ELSE (IF hist[Head(order)].IsActive THEN 1 ELSE 0) + activeCount(hist, Tail(order))

\* GetStats counting the inactive records as active
GetStatsCountsAll(hist, evs) ==
    [TotalPortsTracked |-> Cardinality(DOMAIN hist),
     ActivePorts |-> Cardinality(DOMAIN hist),
     TotalEvents |-> Len(evs)]

\* GetStats()
GetStats(hist, evs) ==
    [TotalPortsTracked |-> Cardinality(DOMAIN hist),
     ActivePorts |-> activeCount(hist, CHOOSE order \in Orders(DOMAIN hist) : TRUE),
     TotalEvents |-> Len(evs)]

\* GetUptime(port) on the store hist when time.Now() is now
uptimeOf(hist, port, now) ==
    IF port \in DOMAIN hist /\ hist[port].IsActive
    THEN now - hist[port].FirstSeen
    ELSE 0

\* GetUptime(port) when time.Now() is now
GetUptime(port, now) == uptimeOf(history, port, now)

\* FormatUptime(d), d in seconds
FormatUptime(d) ==
    LET days == d \div 86400
        hours == (d \div 3600) % 24
        minutes == (d \div 60) % 60
        seconds == d % 60
    IN IF d = 0 THEN "-"
       ELSE IF days > 0
       THEN ToString(days) \o "d " \o ToString(hours) \o "h " \o ToString(minutes) \o "m"
       ELSE IF hours > 0
       THEN ToString(hours) \o "h " \o ToString(minutes) \o "m " \o ToString(seconds) \o "s"
       ELSE IF minutes > 0
       THEN ToString(minutes) \o "m " \o ToString(seconds) \o "s"
       ELSE ToString(seconds) \o "s"

\* ------------------------------------------------------------------ steps
\* nothing has been called yet
NoCall == [op |-> "none"]

\* the tracker is used without the UI
NoModel == [viewMode |-> "none"]

\* NewTracker(maxEvents, maxHistories)
Init ==
    /\ history = <<>>
    /\ events = <<>>
    /\ maxEvents \in 1..MaxEventsCap
    /\ maxHistories \in 1..MaxHistoriesCap
    /\ clock = 0
    /\ lastObs = <<>>
    /\ cycleLog = <<>>
    /\ firstEver = [p \in Ports |-> 0]
    /\ call = NoCall
    /\ model = NoModel
    /\ pendingTicks = 0
    /\ pendingScans = 0
    /\ lastMsg = "none"
    /\ inFlight = <<>>
    /\ pendingExports = 0
    /\ running = FALSE

\* the keys for which the body of the close loop does something.  The loop
\* ranges over every key of t.history; for the other keys the body is a no-op,
\* so only the order among these keys shows in the result
closing(hist, currentPortMap) ==
    {port \in DOMAIN hist : hasClosed(hist[port], port, currentPortMap)}

\* Tracker.Update(currentPorts), cleanup included
reconcile(currentPorts) ==
    /\ LET now == clock + 1
           currentPortMap == currentPortMapOf(currentPorts)
           t0 == [history |-> history, events |-> events, emitted |-> <<>>]
       IN \E openOrder \in Orders(DOMAIN currentPortMap) :
            LET t1 == openLoop(t0, openOrder, currentPortMap, now, maxEvents)
            IN \E closeOrder \in Orders(closing(t1.history, currentPortMap)) :
                 LET t2 == closeLoop(t1, closeOrder, currentPortMap, now, maxEvents)
                 IN \E inactive \in cleanupOrders(t2.history, maxHistories) :
                      LET gone == toEvict(t2.history, inactive, maxHistories)
                      IN /\ history' = removeAll(t2.history, gone)
                         /\ events' = t2.events
                         /\ clock' = now
                         /\ lastObs' = currentPorts
                         /\ cycleLog' = LastN(cycleLog, 2) \o
                               <<[ports |-> DOMAIN currentPortMap,
                                  known |-> DOMAIN history,
                                  emitted |-> t2.emitted,
                                  evicted |-> {t2.history[p] : p \in Range(gone)}]>>
                         /\ firstEver' = [p \in Ports |->
                               IF firstEver[p] = 0 /\ p \in DOMAIN currentPortMap
                               THEN now ELSE firstEver[p]]
    /\ UNCHANGED <<maxEvents, maxHistories>>

\* Tracker.Update(currentPorts) while the clock is below MaxClock
Update(currentPorts) ==
    /\ clock < MaxClock
    /\ reconcile(currentPorts)

Next ==
    \E currentPorts \in Snapshots :
        Update(currentPorts) /\ UNCHANGED call /\ UNCHANGED uiVars

Spec == Init /\ [][Next]_vars

\* ------------------------------------------------------------------ the terminal UI

\* history.NewTracker(1000, 500) of InitialModel
UiMaxEvents == 1000
UiMaxHistories == 500

\* table.WithHeight(15) of InitialModel
InitialHeight == 15

SortByPort == 0
SortByPID == 1
SortByProcess == 2

ViewPorts == "ViewPorts"
ViewHistory == "ViewHistory"

\* the error values of Model.err; NoErr is nil
NoErr == "nil"
ScanErr == "failed to get connections"
KillErr == "failed to kill process"
ExportErr == "failed to export"

\* the terminal heights of tea.WindowSizeMsg
WindowHeights == {24}

\* the entries ScanPorts builds: a connection without pid is listed with
\* PID 0 and the process name "Unknown"
ScanInfo ==
    {[Port |-> p, PID |-> q, Process |-> ProcessOf(q)] : p \in Ports \ {0}, q \in 0..MaxScanPid}

\* what a scan delivers: distinct positive ports in map iteration order
ScanResults ==
    {s \in UNION {[1..n -> ScanInfo] : n \in 0..MaxObs} :
        \A i, j \in DOMAIN s : i # j => s[i].Port # s[j].Port}

\* Go's < on the process names of ProcessOf
stringLess(a, b) ==
    LET rank(x) == IF x = "Unknown" THEN 0 ELSE IF x = "nginx" THEN 1 ELSE 2
    IN rank(a) < rank(b)

\* less of sortPorts before the direction is applied
keyLess(a, b, sortColumn) ==
    IF sortColumn = SortByPort THEN a.Port < b.Port
    ELSE IF sortColumn = SortByPID THEN a.PID < b.PID
    ELSE stringLess(a.Process, b.Process)

\* sortPorts leaving the list as it is
sortPortsSkipped(ports, sortColumn, sortAscending) == {ports}

\* sortPorts(): the lists sort.Slice may leave in m.ports.  The keys are in
\* the chosen direction.  sort.Slice is not stable, and with sortAscending
\* false its function is !less, true for two entries of equal key, so entries
\* of equal key end in any order
sortPorts(ports, sortColumn, sortAscending) ==
    {[i \in DOMAIN ports |-> ports[o[i]]] : o \in
        {o \in Orders(DOMAIN ports) :
            \A i, j \in DOMAIN ports :
                i < j => IF sortAscending
                         THEN ~keyLess(ports[o[j]], ports[o[i]], sortColumn)
                         ELSE ~keyLess(ports[o[i]], ports[o[j]], sortColumn)}}

\* time.Format("15:04:05"), the clock in seconds
FormatTime(t) == ToString(t % 86400)

\* the rows updateTableRows sets: one per entry of m.ports, in list order
updateTableRows(ports, hist, now) ==
    [i \in DOMAIN ports |->
        <<ToString(ports[i].Port), ToString(ports[i].PID), ports[i].Process,
          FormatUptime(uptimeOf(hist, ports[i].Port, now)), "LISTEN">>]

\* the rows updateHistoryTable sets for the slice histories of GetAllHistory
updateHistoryTable(histories, hist, now) ==
    [i \in DOMAIN histories |->
        LET h == hist[histories[i]]
        IN <<ToString(h.Port), h.Process,
             IF h.IsActive THEN "ACTIVE" ELSE "CLOSED",
             FormatTime(h.FirstSeen), FormatTime(h.LastSeen),
             IF h.IsActive THEN FormatUptime(now - h.FirstSeen) ELSE "-">>]

\* the rows the "s" and "a" cases set: m.updateTableRows(), whatever the view
sortKeyRows(viewMode, ports, hist, now) == {updateTableRows(ports, hist, now)}

\* the selection after the table has handled a key.  The table keeps the
\* cursor on a row; whether its key map also binds k to "line up" is the
\* table's choice, so k leaves the cursor or moves it up
tableUpdate(cursor, rows, key) ==
    LET last == IF Len(rows) = 0 THEN 0 ELSE Len(rows) - 1
        up == IF cursor - 1 < 0 THEN 0 ELSE Min(cursor - 1, last)
        down == Min(cursor + 1, last)
    IN IF key = "up" THEN {up}
       ELSE IF key = "down" THEN {down}
       ELSE IF key = "k" THEN {cursor, up}
       ELSE {cursor}

\* InitialModel()
InitialModel ==
    [ports |-> <<>>, err |-> NoErr, lastScan |-> 0, isScanning |-> FALSE,
     sortColumn |-> SortByPort, sortAscending |-> TRUE,
     viewMode |-> ViewPorts, rows |-> <<>>, cursor |-> 0,
     height |-> InitialHeight, exportMsg |-> "", exportMsgTime |-> 0]

\* InitialModel() and the commands of Model.Init(): one tick, one scan
InitUI ==
    /\ history = <<>>
    /\ events = <<>>
    /\ maxEvents = UiMaxEvents
    /\ maxHistories = UiMaxHistories
    /\ clock = 0
    /\ lastObs = <<>>
    /\ cycleLog = <<>>
    /\ firstEver = [p \in Ports |-> 0]
    /\ call = NoCall
    /\ model = InitialModel
    /\ pendingTicks = 1
    /\ pendingScans = 1
    /\ lastMsg = "none"
    /\ inFlight = <<FALSE>>
    /\ pendingExports = 0
    /\ running = TRUE

\* tickCmd that schedules nothing
tickCmdDropped(ticks) == ticks

\* tickCmd(): one more tea.Tick timer is pending
tickCmd(ticks) == ticks + 1

\* case tickMsg: the timer has fired; a new tick and a new scan are started
TickMsg ==
    /\ running
    /\ pendingTicks > 0
    /\ pendingScans < MaxInFlight
    /\ pendingTicks' = tickCmd(pendingTicks - 1)
    /\ pendingScans' = pendingScans + 1
    /\ inFlight' = Append(inFlight, FALSE)
    /\ lastMsg' = "tickMsg"
    /\ call' = NoCall
    /\ UNCHANGED <<model, pendingExports, running>>
    /\ UNCHANGED trackerVars

\* case "r": a scan is started
KeyR ==
    /\ running
    /\ pendingScans < MaxInFlight
    /\ pendingScans' = pendingScans + 1
    /\ inFlight' = Append(inFlight, FALSE)
    /\ lastMsg' = "r"
    /\ call' = NoCall
    /\ UNCHANGED <<model, pendingTicks, pendingExports, running>>
    /\ UNCHANGED trackerVars

\* case "s": next sort column, sortPorts, updateTableRows
KeyS ==
    /\ running
    /\ LET sortColumn == (model.sortColumn + 1) % 3
       IN \E sorted \in sortPorts(model.ports, sortColumn, model.sortAscending) :
          \E rows \in sortKeyRows(model.viewMode, sorted, history, clock) :
            model' = [model EXCEPT !.sortColumn = sortColumn,
                                   !.ports = sorted,
                                   !.rows = rows]
    /\ lastMsg' = "s"
    /\ call' = NoCall
    /\ UNCHANGED <<pendingTicks, pendingScans, inFlight, pendingExports, running>>
    /\ UNCHANGED trackerVars

\* case "a": other direction, sortPorts, updateTableRows
KeyA ==
    /\ running
    /\ LET sortAscending == ~model.sortAscending
       IN \E sorted \in sortPorts(model.ports, model.sortColumn, sortAscending) :
          \E rows \in sortKeyRows(model.viewMode, sorted, history, clock) :
            model' = [model EXCEPT !.sortAscending = sortAscending,
                                   !.ports = sorted,
                                   !.rows = rows]
    /\ lastMsg' = "a"
    /\ call' = NoCall
    /\ UNCHANGED <<pendingTicks, pendingScans, inFlight, pendingExports, running>>
    /\ UNCHANGED trackerVars

\* case "h": the other view and its rows
KeyH ==
    /\ running
    /\ IF model.viewMode = ViewPorts
       THEN \E histories \in GetAllHistory(history) :
              model' = [model EXCEPT !.viewMode = ViewHistory,
                                     !.rows = updateHistoryTable(histories, history, clock)]
       ELSE model' = [model EXCEPT !.viewMode = ViewPorts,
                                   !.rows = updateTableRows(model.ports, history, clock)]
    /\ lastMsg' = "h"
    /\ call' = NoCall
    /\ UNCHANGED <<pendingTicks, pendingScans, inFlight, pendingExports, running>>
    /\ UNCHANGED trackerVars

\* the keys "up" and "down": no case of Model.Update, the table moves the cursor
KeyMove(key) ==
    /\ running
    /\ \E cursor \in tableUpdate(model.cursor, model.rows, key) :
         model' = [model EXCEPT !.cursor = cursor]
    /\ lastMsg' = key
    /\ call' = NoCall
    /\ UNCHANGED <<pendingTicks, pendingScans, inFlight, pendingExports, running>>
    /\ UNCHANGED trackerVars

\* the "k" case without the test of the pid
killTargetAnyPid(ports, cursor) ==
    IF Len(ports) > 0 /\ cursor < Len(ports) THEN {ports[cursor + 1]} ELSE {}

\* the entry whose process the "k" case kills: m.ports[m.table.Cursor()], if
\* the list is not empty, the cursor is within it and the pid is not 0
killTarget(ports, cursor) ==
    IF Len(ports) > 0 /\ cursor < Len(ports)
    THEN IF ports[cursor + 1].PID # 0 THEN {ports[cursor + 1]} ELSE {}
    ELSE {}

\* case "k": KillProcess on the pid of the entry, unless it is 0.  A failure
\* is kept in m.err and the key goes on to the table; a success returns at
\* once with a scan
KeyK ==
    /\ running
    /\ LET target == killTarget(model.ports, model.cursor)
       IN IF target # {}
          THEN \E selectedPort \in target : \E ok \in BOOLEAN :
                 /\ call' = [op |-> "KillProcess", port |-> selectedPort.Port,
                             pid |-> selectedPort.PID, ok |-> ok]
                 /\ IF ok
                    THEN /\ pendingScans < MaxInFlight
                         /\ pendingScans' = pendingScans + 1
                         /\ inFlight' = Append(inFlight, FALSE)
                         /\ UNCHANGED model
                    ELSE /\ \E cursor \in tableUpdate(model.cursor, model.rows, "k") :
                              model' = [model EXCEPT !.err = KillErr, !.cursor = cursor]
                         /\ UNCHANGED <<pendingScans, inFlight>>
          ELSE /\ call' = NoCall
               /\ \E cursor \in tableUpdate(model.cursor, model.rows, "k") :
                    model' = [model EXCEPT !.cursor = cursor]
               /\ UNCHANGED <<pendingScans, inFlight>>
    /\ lastMsg' = "k"
    /\ UNCHANGED <<pendingTicks, pendingExports, running>>
    /\ UNCHANGED trackerVars

\* case "e": with a non-empty list an export is started
KeyE ==
    /\ running
    /\ pendingExports < MaxExports
    /\ pendingExports' = IF Len(model.ports) > 0 THEN pendingExports + 1 ELSE pendingExports
    /\ lastMsg' = "e"
    /\ call' = NoCall
    /\ UNCHANGED <<model, pendingTicks, pendingScans, inFlight, running>>
    /\ UNCHANGED trackerVars

\* case "q", "ctrl+c", "esc": tea.Quit
KeyQ ==
    /\ running
    /\ running' = FALSE
    /\ lastMsg' = "q"
    /\ call' = NoCall
    /\ UNCHANGED <<model, pendingTicks, pendingScans, inFlight, pendingExports>>
    /\ UNCHANGED trackerVars

\* the scans left in flight once the i-th has delivered its result: the ones
\* started before it have been overtaken
afterResult(scans, i) ==
    [j \in 1..(Len(scans) - 1) |-> IF j < i THEN TRUE ELSE scans[j + 1]]

\* the scans left in flight once the i-th has failed
afterError(scans, i) ==
    [j \in 1..(Len(scans) - 1) |-> IF j < i THEN scans[j] ELSE scans[j + 1]]

\* case scanResultMsg, for the result of any scan in flight: the list is
\* replaced, the error cleared, the tracker updated with the list as
\* delivered, then sortPorts and the rows of the view
ScanResultMsg(ports) ==
    /\ running
    /\ pendingScans > 0
    /\ clock < MaxUiCycles
    /\ pendingScans' = pendingScans - 1
    /\ \E i \in DOMAIN inFlight :
         /\ inFlight' = afterResult(inFlight, i)
         /\ call' = [op |-> "Update", stale |-> inFlight[i]]
    /\ Update(ports)
    /\ \E sorted \in sortPorts(ports, model.sortColumn, model.sortAscending) :
         IF model.viewMode = ViewPorts
         THEN model' = [model EXCEPT !.ports = sorted, !.lastScan = clock',
                                     !.isScanning = FALSE, !.err = NoErr,
                                     !.rows = updateTableRows(sorted, history', clock')]
         ELSE \E histories \in GetAllHistory(history') :
                model' = [model EXCEPT !.ports = sorted, !.lastScan = clock',
                                       !.isScanning = FALSE, !.err = NoErr,
                                       !.rows = updateHistoryTable(histories, history', clock')]
    /\ lastMsg' = "scanResultMsg"
    /\ UNCHANGED <<pendingTicks, pendingExports, running>>

\* the errorMsg case dropping the port list as well
onErrorMsgClearsPorts(mdl, err) ==
    [mdl EXCEPT !.err = err, !.isScanning = FALSE, !.ports = <<>>]

\* case errorMsg: m.err = msg.err, m.isScanning = false
onErrorMsg(mdl, err) ==
    [mdl EXCEPT !.err = err, !.isScanning = FALSE]

\* a scan fails: scanPorts delivers errorMsg{err}
ErrorMsg ==
    /\ running
    /\ pendingScans > 0
    /\ pendingScans' = pendingScans - 1
    /\ \E i \in DOMAIN inFlight : inFlight' = afterError(inFlight, i)
    /\ model' = onErrorMsg(model, ScanErr)
    /\ lastMsg' = "errorMsg"
    /\ call' = NoCall
    /\ UNCHANGED <<pendingTicks, pendingExports, running>>
    /\ UNCHANGED trackerVars

\* case exportSuccessMsg: the export has written its files
ExportSuccessMsg ==
    /\ running
    /\ pendingExports > 0
    /\ pendingExports' = pendingExports - 1
    /\ model' = [model EXCEPT !.exportMsg = "Exported to: path", !.exportMsgTime = clock]
    /\ lastMsg' = "exportSuccessMsg"
    /\ call' = NoCall
    /\ UNCHANGED <<pendingTicks, pendingScans, inFlight, running>>
    /\ UNCHANGED trackerVars

\* an export fails: exportData delivers errorMsg{err}
ExportErrorMsg ==
    /\ running
    /\ pendingExports > 0
    /\ pendingExports' = pendingExports - 1
    /\ model' = onErrorMsg(model, ExportErr)
    /\ lastMsg' = "errorMsg"
    /\ call' = NoCall
    /\ UNCHANGED <<pendingTicks, pendingScans, inFlight, running>>
    /\ UNCHANGED trackerVars

\* case tea.WindowSizeMsg: m.table.SetHeight(msg.Height - 10)
WindowSizeMsg(height) ==
    /\ running
    /\ model' = [model EXCEPT !.height = height - 10]
    /\ lastMsg' = "WindowSizeMsg"
    /\ call' = NoCall
    /\ UNCHANGED <<pendingTicks, pendingScans, inFlight, pendingExports, running>>
    /\ UNCHANGED trackerVars

\* the scans, the views and the sorting
NextUI ==
    \/ TickMsg
    \/ KeyR
    \/ KeyS
    \/ KeyA
    \/ KeyH
    \/ \E ports \in ScanResults : ScanResultMsg(ports)
    \/ ErrorMsg

SpecUI == InitUI /\ [][NextUI]_vars

\* ------------------------------------------------------------------ the kill key

\* the selection and the kill key in both views, with the scans a start and
\* a successful kill bring
NextKill ==
    \/ KeyK
    \/ \E key \in {"up", "down"} : KeyMove(key)
    \/ KeyS
    \/ KeyH
    \/ \E ports \in ScanResults : ScanResultMsg(ports)
    \/ ErrorMsg

SpecKill == InitUI /\ [][NextKill]_vars

\* ------------------------------------------------------------------ the commands of the UI

\* the scan results of the specification of the commands: one port at most
CmdScanResults == {s \in ScanResults : \A i \in DOMAIN s : i = 1 /\ s[i].Port = 1}

\* a scan in flight delivers its message
ScanDelivers ==
    \/ \E ports \in CmdScanResults : ScanResultMsg(ports)
    \/ ErrorMsg

\* every message that starts, ends or could touch a command
NextCmds ==
    \/ TickMsg
    \/ KeyR
    \/ KeyK
    \/ KeyE
    \/ KeyQ
    \/ ScanDelivers
    \/ ExportSuccessMsg
    \/ ExportErrorMsg
    \/ \E height \in WindowHeights : WindowSizeMsg(height)

\* a timer fires after its three seconds and a scan returns: the tick is
\* handled again and again (it is only the bound MaxInFlight that can hold it
\* back for a while), and a scan in flight delivers
SpecCmds ==
    /\ InitUI
    /\ [][NextCmds]_vars
    /\ SF_vars(TickMsg)
    /\ WF_vars(ScanDelivers)

\* ------------------------------------------------------------------ the life of one port

\* the snapshots of one port: absent, or listening under any pid
OnePortSnapshots == {s \in Snapshots : \A i \in DOMAIN s : i = 1 /\ s[i].Port = 1}

\* Tracker.Update for one port, over MaxPortClock cycles
UpdateOnePort(currentPorts) ==
    /\ clock < MaxPortClock
    /\ reconcile(currentPorts)
    /\ UNCHANGED call
    /\ UNCHANGED uiVars

NextOnePort == \E currentPorts \in OnePortSnapshots : UpdateOnePort(currentPorts)

SpecOnePort == Init /\ [][NextOnePort]_vars

\* ------------------------------------------------------------------ the event log alone
\* the events a caller may append
LogEvents ==
    {PortEvent(p, q, ProcessOf(q), ty, 1) :
        p \in Ports, q \in PIDs, ty \in {EventPortOpened, EventPortClosed}}

Limits == (0 - 1)..MaxLimit

\* NewTracker(maxEvents, _) with any maxEvents >= 0
InitLog ==
    /\ history = <<>>
    /\ events = <<>>
    /\ maxEvents \in 0..MaxEventsCap
    /\ maxHistories = MaxHistoriesCap
    /\ clock = 0
    /\ lastObs = <<>>
    /\ cycleLog = <<>>
    /\ firstEver = [p \in Ports |-> 0]
    /\ call = NoCall
    /\ model = NoModel
    /\ pendingTicks = 0
    /\ pendingScans = 0
    /\ lastMsg = "none"
    /\ inFlight = <<>>
    /\ pendingExports = 0
    /\ running = FALSE

\* t.addEvent(event)
AddEventCall(event) ==
    /\ events' = addEvent(events, event, maxEvents)
    /\ call' = [op |-> "addEvent", event |-> event, before |-> events]
    /\ UNCHANGED <<history, maxEvents, maxHistories, clock, lastObs, cycleLog, firstEver>>
    /\ UNCHANGED uiVars

\* t.GetRecentEvents(limit)
GetRecentEventsCall(limit) ==
    /\ call' = [op |-> "GetRecentEvents", limit |-> limit,
                result |-> GetRecentEvents(events, limit)]
    /\ UNCHANGED trackerVars
    /\ UNCHANGED uiVars

NextLog ==
    \/ \E event \in LogEvents : AddEventCall(event)
    \/ \E limit \in Limits : GetRecentEventsCall(limit)

SpecLog == InitLog /\ [][NextLog]_vars

\* ------------------------------------------------------------------ the tracker and its readers

\* t.GetAllHistory(): the caller keeps the returned slice.  `seen` is what the
\* caller reads through its pointers, `live` whether the record pointed to is
\* still the one in t.history
GetAllHistoryCall ==
    /\ \E result \in GetAllHistory(history) :
          call' = [op |-> "GetAllHistory",
                   result |-> result,
                   at |-> clock,
                   store |-> DOMAIN history,
                   atCall |-> [i \in DOMAIN result |-> history[result[i]]],
                   seen |-> [i \in DOMAIN result |-> history[result[i]]],
                   live |-> [i \in DOMAIN result |-> TRUE]]
    /\ UNCHANGED trackerVars
    /\ UNCHANGED uiVars

\* t.GetStats()
GetStatsCall ==
    /\ call' = [op |-> "GetStats", result |-> GetStats(history, events)]
    /\ UNCHANGED trackerVars
    /\ UNCHANGED uiVars

\* what a held GetAllHistory result shows after a cycle: Update writes through
\* the same *PortHistory the slice points to; a record deleted by cleanup
\* stays as it was when deleted
heldAfterUpdate(held, hist, evicted) ==
    IF held.op # "GetAllHistory" THEN NoCall
    ELSE [held EXCEPT
            !.seen = [i \in DOMAIN held.result |->
                        IF ~held.live[i] THEN held.seen[i]
                        ELSE IF held.result[i] \in DOMAIN hist THEN hist[held.result[i]]
                        ELSE CHOOSE r \in evicted : r.Port = held.result[i]],
            !.live = [i \in DOMAIN held.result |->
                        held.live[i] /\ held.result[i] \in DOMAIN hist]]

\* a scan result is reconciled while a reader may hold an earlier result
UpdateHeld(currentPorts) ==
    /\ Update(currentPorts)
    /\ call' = heldAfterUpdate(call, history', cycleLog'[Len(cycleLog')].evicted)
    /\ UNCHANGED uiVars

NextReaders ==
    \/ \E currentPorts \in ScanResults : UpdateHeld(currentPorts)
    \/ GetAllHistoryCall
    \/ GetStatsCall

SpecReaders == Init /\ [][NextReaders]_vars

\* ------------------------------------------------------------------ properties
LastCycle == cycleLog[Len(cycleLog)]

\* the ports of a snapshot
PortsOf(obs) == {obs[i].Port : i \in DOMAIN obs}

\* how many events of one type a sequence holds for a port
CountEvents(evs, port, eventType) ==
    Cardinality({i \in DOMAIN evs : evs[i].Port = port /\ evs[i].EventType = eventType})

activeOf(hist) == {port \in DOMAIN hist : hist[port].IsActive}

\* C1: one Update emits exactly one Opened for each observed port that had no
\* record or an inactive one, exactly one Closed for each port that was active
\* and is absent from the snapshot, and nothing for any other port.
C1_EventsOfOneCycle ==
    [][\A p \in Ports :
        LET emitted == cycleLog'[Len(cycleLog')].emitted
            wasActive == p \in DOMAIN history /\ history[p].IsActive
            observed == p \in PortsOf(lastObs')
        IN /\ CountEvents(emitted, p, EventPortOpened) =
                 IF observed /\ ~wasActive THEN 1 ELSE 0
           /\ CountEvents(emitted, p, EventPortClosed) =
                 IF wasActive /\ ~observed THEN 1 ELSE 0]_vars

\* a cycle that opened a port, closed another and kept a third is reached
C1_Witness ==
    /\ Len(cycleLog) >= 2
    /\ \E p, q, r \in Ports :
        /\ CountEvents(LastCycle.emitted, p, EventPortOpened) = 1
        /\ CountEvents(LastCycle.emitted, q, EventPortClosed) = 1
        /\ r \in LastCycle.ports /\ r \in LastCycle.known
        /\ CountEvents(LastCycle.emitted, r, EventPortOpened) = 0

\* C2: after every Update the active records are exactly the ports of the
\* newest snapshot.
C2_ActiveIsNewestSnapshot ==
    activeOf(history) = PortsOf(lastObs)

\* after a cycle with an eviction, observed ports are active and an inactive
\* record is kept
C2_Witness ==
    /\ Len(cycleLog) >= 1
    /\ LastCycle.evicted # {}
    /\ PortsOf(lastObs) # {}
    /\ inactiveOf(history) # {}

\* p had no record, then was observed, absent, observed in three cycles
ReopenedInThreeCycles(p) ==
    /\ Len(cycleLog) = 3
    /\ p \notin cycleLog[1].known
    /\ p \in cycleLog[1].ports
    /\ p \notin cycleLog[2].ports
    /\ p \in cycleLog[3].ports

EventsInThreeCycles(p, eventType) ==
    CountEvents(cycleLog[1].emitted \o cycleLog[2].emitted \o cycleLog[3].emitted,
                p, eventType)

\* C3 as stated: observed, absent, observed again gives two Opened, one Closed
\* and openCount == 2 after the third cycle.
C3_ReopenCountsTwo ==
    \A p \in Ports :
        ReopenedInThreeCycles(p) =>
            /\ EventsInThreeCycles(p, EventPortOpened) = 2
            /\ EventsInThreeCycles(p, EventPortClosed) = 1
            /\ p \in DOMAIN history
            /\ history[p].OpenCount = 2

\* C3 amended: the three cycles give two Opened and one Closed; openCount is 2
\* after the third cycle unless the eviction pass of the second cycle removed
\* the record, and then the third cycle made a new record with openCount 1.
C3_ReopenCountsTwoUnlessEvicted ==
    \A p \in Ports :
        ReopenedInThreeCycles(p) =>
            /\ EventsInThreeCycles(p, EventPortOpened) = 2
            /\ EventsInThreeCycles(p, EventPortClosed) = 1
            /\ p \in DOMAIN history
            /\ history[p].OpenCount =
                  IF \E r \in cycleLog[2].evicted : r.Port = p THEN 1 ELSE 2

C3_Witness ==
    \E p \in Ports :
        /\ ReopenedInThreeCycles(p)
        /\ history[p].OpenCount = 2
        /\ Len(history[p].Events) = 3

\* C4: the global event log never holds more than maxEvents events.
C4_EventLogBounded ==
    Len(events) <= maxEvents

\* the log is full and the cycles have emitted more than it holds
C4_Witness ==
    /\ Len(cycleLog) >= 2
    /\ Len(events) = maxEvents
    /\ Len(cycleLog[1].emitted) + Len(cycleLog[2].emitted) > maxEvents

\* C5: after every Update the store holds at most maxHistories records, unless
\* the active records alone are more than maxHistories, and then no inactive
\* record is left.
C5_StoreBounded ==
    \/ Cardinality(DOMAIN history) <= maxHistories
    \/ /\ Cardinality(activeOf(history)) > maxHistories
       /\ inactiveOf(history) = {}

\* a cycle evicted a record and still left more active records than maxHistories
C5_Witness ==
    /\ Len(cycleLog) >= 1
    /\ LastCycle.evicted # {}
    /\ Cardinality(DOMAIN history) > maxHistories

\* C6: the eviction pass removes only records that are inactive when removed;
\* an active record is never removed.
C6_OnlyInactiveEvicted ==
    [][/\ \A r \in cycleLog'[Len(cycleLog')].evicted : ~r.IsActive
       /\ \A p \in PortsOf(lastObs') : p \in DOMAIN history']_vars

\* a cycle evicted a record while active records were in the store
C6_Witness ==
    /\ Len(cycleLog) >= 1
    /\ LastCycle.evicted # {}
    /\ activeOf(history) # {}

\* the timestamp of the most recent Opened event of a record
LastOpened(h) ==
    LET i == CHOOSE i \in DOMAIN h.Events :
                /\ h.Events[i].EventType = EventPortOpened
                /\ \A j \in DOMAIN h.Events :
                      h.Events[j].EventType = EventPortOpened => j <= i
    IN h.Events[i].Timestamp

\* C7: for an active port the uptime is now minus the time of its most recent
\* Opened event.
C7_UptimeSinceLastOpened ==
    \A p \in DOMAIN history :
        history[p].IsActive => GetUptime(p, clock) = clock - LastOpened(history[p])

\* C8: after every Update the record of every observed port holds the pid and
\* processName of an observation of that port in the newest snapshot.
C8_RecordHoldsNewestOccupant ==
    \A p \in PortsOf(lastObs) :
        /\ p \in DOMAIN history
        /\ \E i \in DOMAIN lastObs :
              /\ lastObs[i].Port = p
              /\ history[p].PID = lastObs[i].PID
              /\ history[p].Process = lastObs[i].Process

\* C9 as stated: the firstSeen of a port is the time of its first-ever
\* observation, whatever later cycles did.
C9_FirstSeenIsFirstEver ==
    \A p \in DOMAIN history : history[p].FirstSeen = firstEver[p]

\* C9 amended: the firstSeen of a record is set when the record is created and
\* no later cycle changes it while the record stays in the store.
C9_FirstSeenOfRecordFixed ==
    [][\A p \in DOMAIN history' :
          history'[p].FirstSeen =
              IF p \in DOMAIN history THEN history[p].FirstSeen ELSE clock']_vars

\* a record was observed again while active, closed and reopened
C9_Witness ==
    \E p \in DOMAIN history :
        /\ history[p].OpenCount = 2
        /\ history[p].IsActive
        /\ history[p].FirstSeen < history[p].LastSeen

\* the first observation of a port in a snapshot
FirstOf(obs, port) ==
    obs[CHOOSE i \in DOMAIN obs :
            /\ obs[i].Port = port
            /\ \A j \in DOMAIN obs : obs[j].Port = port => i <= j]

\* C10: among several observations of one port in a snapshot the first gives
\* the pid and processName of the new record and of its Opened event.
C10_FirstDuplicateWins ==
    Len(cycleLog) >= 1 =>
        \A p \in LastCycle.ports \ LastCycle.known :
            /\ history[p].PID = FirstOf(lastObs, p).PID
            /\ history[p].Process = FirstOf(lastObs, p).Process
            /\ \A i \in DOMAIN LastCycle.emitted :
                  LastCycle.emitted[i].Port = p =>
                      /\ LastCycle.emitted[i].PID = FirstOf(lastObs, p).PID
                      /\ LastCycle.emitted[i].Process = FirstOf(lastObs, p).Process

\* C11: an observation with port <= 0 creates no record and emits no event.
C11_NonPositivePortExcluded ==
    /\ \A p \in DOMAIN history : p > 0
    /\ \A k \in DOMAIN cycleLog : \A i \in DOMAIN cycleLog[k].emitted :
          cycleLog[k].emitted[i].Port > 0

\* the store as the last cycle handed it to cleanup: what is left plus what
\* was deleted
BeforeCleanup ==
    [p \in DOMAIN history \cup {r.Port : r \in LastCycle.evicted} |->
        IF p \in DOMAIN history THEN history[p]
        ELSE CHOOSE r \in LastCycle.evicted : r.Port = p]

\* C13: cleanup does nothing when the store is within maxHistories; otherwise
\* it removes min(len(store) - maxHistories, number of inactive records)
\* records, none of them seen later than an inactive record it keeps.
C13_EvictsOldestInactive ==
    Len(cycleLog) >= 1 =>
        LET before == BeforeCleanup
            size == Cardinality(DOMAIN before)
        IN IF size <= maxHistories
           THEN LastCycle.evicted = {}
           ELSE /\ Cardinality(LastCycle.evicted) =
                      Min(size - maxHistories, Cardinality(inactiveOf(before)))
                /\ \A r \in LastCycle.evicted : \A p \in inactiveOf(history) :
                      r.LastSeen <= history[p].LastSeen

\* a record is evicted while an inactive record closed later is kept
C13_Witness ==
    /\ Len(cycleLog) >= 1
    /\ \E r \in LastCycle.evicted : \E p \in inactiveOf(history) :
          r.LastSeen < history[p].LastSeen

\* C14: from one store content cleanup always removes the same set of ports,
\* whatever the order the map is ranged over and the sort leaves ties in.
C14_EvictionDeterministic ==
    Len(cycleLog) >= 1 =>
        \A s1, s2 \in cleanupOrders(BeforeCleanup, maxHistories) :
            Range(toEvict(BeforeCleanup, s1, maxHistories)) =
            Range(toEvict(BeforeCleanup, s2, maxHistories))

C16_RecentIsLastMin ==
    (call.op = "GetRecentEvents" /\ call.limit >= 0) =>
        call.result = LastN(events, Min(call.limit, Len(events)))

\* C16 amended: for limit >= 1 the result is the last min(limit, size) events in
\* log order; for limit <= 0 it is the whole log.
C16_RecentIsLastMinOrAll ==
    call.op = "GetRecentEvents" =>
        call.result = IF call.limit <= 0 THEN events
                      ELSE LastN(events, Min(call.limit, Len(events)))

\* a limit below the size of a log of two different events
C16_Witness ==
    /\ call.op = "GetRecentEvents"
    /\ call.limit = 1
    /\ Len(events) = 2
    /\ events[1] # events[2]

\* C17: GetAllHistory returns every record of the store exactly once, ordered
\* by lastSeen descending.
C17_AllHistoryNewestFirst ==
    call.op = "GetAllHistory" =>
        /\ Len(call.result) = Cardinality(call.store)
        /\ Range(call.result) = call.store
        /\ call.at = clock => call.store = DOMAIN history
        /\ \A i \in DOMAIN call.result : call.atCall[i].Port = call.result[i]
        /\ \A i \in 1..(Len(call.result) - 1) :
              call.atCall[i].LastSeen >= call.atCall[i + 1].LastSeen

\* a result with records of different lastSeen
C17_Witness ==
    /\ call.op = "GetAllHistory"
    /\ call.at = clock
    /\ Len(call.result) >= 2
    /\ call.atCall[1].LastSeen > call.atCall[Len(call.result)].LastSeen

\* C18: a later Update changes no field of the records of a sequence
\* GetAllHistory has already returned.
C18_ReturnedHistoryIsSnapshot ==
    call.op = "GetAllHistory" => call.seen = call.atCall

\* C19: GetStats returns the number of records, the number of active records
\* and the length of the event log, so ActivePorts <= TotalPortsTracked and
\* TotalEvents <= maxEvents.
C19_StatsCountStoreAndLog ==
    call.op = "GetStats" =>
        /\ call.result.TotalPortsTracked = Cardinality(DOMAIN history)
        /\ call.result.ActivePorts = Cardinality(activeOf(history))
        /\ call.result.TotalEvents = Len(events)
        /\ call.result.ActivePorts <= call.result.TotalPortsTracked
        /\ call.result.TotalEvents <= maxEvents

\* statistics of a store with an active and an inactive record and a full log
C19_Witness ==
    /\ call.op = "GetStats"
    /\ call.result.ActivePorts >= 1
    /\ call.result.ActivePorts < call.result.TotalPortsTracked
    /\ call.result.TotalEvents = maxEvents

\* C12: a failed scan (errorMsg) leaves the history store, the event log and
\* the displayed port list as they were, records the error and keeps the tick
\* pending; a tick starts a scan and a tick; a scan result is reconciled by the
\* tracker, becomes the port list and clears the error.
C12_ScanFailureLeavesState ==
    [][/\ lastMsg' = "errorMsg" =>
            /\ trackerVars' = trackerVars
            /\ model'.ports = model.ports
            /\ model'.rows = model.rows
            /\ model'.err = ScanErr
            /\ pendingTicks' = pendingTicks
            /\ pendingTicks' > 0
       /\ lastMsg' = "tickMsg" =>
            /\ pendingScans' = pendingScans + 1
            /\ pendingTicks' > 0
       /\ lastMsg' = "scanResultMsg" =>
            /\ model'.err = NoErr
            /\ clock' = clock + 1
            /\ PortsOf(model'.ports) = PortsOf(lastObs')
            /\ activeOf(history') = PortsOf(lastObs')
            /\ LastCycle'.known = DOMAIN history]_vars

\* a scan has failed while ports were listed and recorded
C12_Witness ==
    /\ lastMsg = "errorMsg"
    /\ model.err = ScanErr
    /\ model.ports # <<>>
    /\ model.rows # <<>>
    /\ history # <<>>
    /\ events # <<>>
    /\ pendingTicks > 0

\* where the entry e stands in the list ports
indexIn(ports, e) == CHOOSE i \in DOMAIN ports : ports[i] = e

\* two entries have the same key in the sort column
sameKey(a, b, sortColumn) ==
    ~keyLess(a, b, sortColumn) /\ ~keyLess(b, a, sortColumn)

\* C20: sortPorts is stable: after a sort, entries of equal key stand in the
\* relative order they had in the list that was sorted.
C20_SortIsStable ==
    [][lastMsg' \in {"s", "a", "scanResultMsg"} =>
        LET input == IF lastMsg' = "scanResultMsg" THEN lastObs' ELSE model.ports
            output == model'.ports
        IN \A i, j \in DOMAIN output :
             i < j /\ sameKey(output[i], output[j], model'.sortColumn)
                => indexIn(input, output[i]) < indexIn(input, output[j])]_vars

\* the events of a sequence that belong to one port, in order
EventsOfPort(evs, port) == SelectSeq(evs, LAMBDA e : e.Port = port)

\* C21: every event a cycle emits is appended both to the record of its port
\* and to the global log, the same event in both: each record handed to
\* cleanup holds its old events followed by the cycle's events for its port,
\* the log holds its old events followed by all of the cycle's events (cut
\* to maxEvents), and every emitted event has a record.
C21_EventInRecordAndLog ==
    [][LET emitted == cycleLog'[Len(cycleLog')].emitted
           store == BeforeCleanup'
       IN /\ events' = LastN(events \o emitted, maxEvents)
          /\ \A p \in DOMAIN store :
                store[p].Events =
                    (IF p \in DOMAIN history THEN history[p].Events ELSE <<>>)
                    \o EventsOfPort(emitted, p)
          /\ \A i \in DOMAIN emitted : emitted[i].Port \in DOMAIN store]_vars

\* a cycle has reopened one port and closed another
C21_Witness ==
    /\ Len(cycleLog) >= 1
    /\ \E i, j \in DOMAIN LastCycle.emitted :
        /\ LastCycle.emitted[i].EventType = EventPortOpened
        /\ LastCycle.emitted[i].Port \in LastCycle.known
        /\ LastCycle.emitted[j].EventType = EventPortClosed

\* C25: after Update at time now every record that is observed or closed in
\* the cycle has LastSeen = now, and every record that was inactive and is
\* not observed reaches cleanup unchanged in every field.
C25_LastSeenFrame ==
    [][LET obs == PortsOf(lastObs')
           store == BeforeCleanup'
       IN /\ \A p \in DOMAIN store :
                (p \in obs \/ (p \in DOMAIN history /\ history[p].IsActive))
                    => store[p].LastSeen = clock'
          /\ \A p \in DOMAIN history :
                (~history[p].IsActive /\ p \notin obs)
                    => p \in DOMAIN store /\ store[p] = history[p]]_vars

\* a cycle has closed one port while an older closed record stayed as it was
C25_Witness ==
    /\ Len(cycleLog) >= 1
    /\ \E p, q \in DOMAIN history :
        /\ ~history[p].IsActive /\ history[p].LastSeen < clock
        /\ p \in LastCycle.known /\ p \notin LastCycle.ports
        /\ ~history[q].IsActive /\ history[q].LastSeen = clock

\* C26: the global log is in arrival order with non-decreasing timestamps,
\* the events of one cycle all carry the cycle's time, and every record has
\* FirstSeen <= LastSeen.
C26_LogChronological ==
    /\ \A i, j \in DOMAIN events : i < j => events[i].Timestamp <= events[j].Timestamp
    /\ Len(cycleLog) >= 1 =>
          \A i \in DOMAIN LastCycle.emitted : LastCycle.emitted[i].Timestamp = clock
    /\ \A p \in DOMAIN history : history[p].FirstSeen <= history[p].LastSeen

\* the log holds events of two cycles and a record was seen in two cycles
C26_Witness ==
    /\ Len(events) >= 2
    /\ events[1].Timestamp < events[Len(events)].Timestamp
    /\ \E p \in DOMAIN history : history[p].FirstSeen < history[p].LastSeen

\* C30: the events of every record are non-empty, start with Opened and
\* alternate Opened/Closed; IsActive holds exactly when the last one is
\* Opened; OpenCount is the number of Opened events and at least 1; so
\* len(Events) = 2*OpenCount - (1 if IsActive else 0): nothing is trimmed.
C30_RecordEventsAlternate ==
    \A p \in DOMAIN history :
        LET h == history[p]
        IN /\ Len(h.Events) >= 1
           /\ \A i \in DOMAIN h.Events :
                h.Events[i].EventType =
                    IF i % 2 = 1 THEN EventPortOpened ELSE EventPortClosed
           /\ h.IsActive <=> h.Events[Len(h.Events)].EventType = EventPortOpened
           /\ h.OpenCount = CountEvents(h.Events, p, EventPortOpened)
           /\ h.OpenCount >= 1
           /\ Len(h.Events) = 2 * h.OpenCount - (IF h.IsActive THEN 1 ELSE 0)

\* a record has been opened, closed and opened again
C30_Witness ==
    \E p \in DOMAIN history : Len(history[p].Events) >= 3 /\ history[p].OpenCount = 2

\* C22: k kills the process of the port shown in the selected row of the
\* table: whenever KillProcess is called, the cursor is on a row and the
\* port of that row is the port of the entry whose pid is killed.
C22_KillsSelectedRow ==
    [][(lastMsg' = "k" /\ call'.op = "KillProcess") =>
          /\ model.cursor < Len(model.rows)
          /\ model.rows[model.cursor + 1][1] = ToString(call'.port)]_vars

\* C23: one tick is pending in every state; handling a tick starts one scan
\* and leaves one tick pending, no other message changes the pending ticks;
\* until quit, ticks are handled again and again.
C23_OneTickPending ==
    /\ [](pendingTicks = 1)
    /\ [][/\ pendingTicks' = pendingTicks
          /\ lastMsg' = "tickMsg" => pendingScans' = pendingScans + 1]_vars
    /\ []<>(~running \/ lastMsg = "tickMsg")

\* a tick has been handled after a scan result was reconciled
C23_Witness ==
    /\ lastMsg = "tickMsg"
    /\ clock >= 1
    /\ pendingTicks = 1
    /\ pendingScans >= 1

\* C24: scan results reach the tracker in the order the scans were started:
\* the result handed to Tracker.Update never comes from a scan that was
\* started before one whose result has been reconciled already.
C24_ResultsInStartOrder ==
    [][lastMsg' = "scanResultMsg" => ~call'.stale]_vars

\* the list is in the order of the sort column and direction
portsOrdered(ports, sortColumn, sortAscending) ==
    \A i \in DOMAIN ports : i < Len(ports) =>
        IF sortAscending
        THEN ~keyLess(ports[i + 1], ports[i], sortColumn)
        ELSE ~keyLess(ports[i], ports[i + 1], sortColumn)

\* C27: s moves the sort column Port -> PID -> Process -> Port, a flips the
\* direction, no other message changes either, and in every state the port
\* list is ordered by the current column in the current direction.
C27_SortStateMachine ==
    /\ [](portsOrdered(model.ports, model.sortColumn, model.sortAscending))
    /\ [][/\ model'.sortColumn =
                IF lastMsg' = "s" THEN (model.sortColumn + 1) % 3 ELSE model.sortColumn
          /\ model'.sortAscending =
                IF lastMsg' = "a" THEN ~model.sortAscending ELSE model.sortAscending]_vars

\* a scan result has replaced the list while the order was process name
\* descending, with two different names
C27_Witness ==
    /\ lastMsg = "scanResultMsg"
    /\ model.sortColumn = SortByProcess
    /\ ~model.sortAscending
    /\ Len(model.ports) = 2
    /\ keyLess(model.ports[2], model.ports[1], SortByProcess)

\* C28: the rows of the table are those of the view: in the history view the
\* rows updateHistoryTable builds from GetAllHistory, in the ports view the
\* rows updateTableRows builds from the port list.
C28_RowsMatchView ==
    IF model.viewMode = ViewHistory
    THEN \E histories \in GetAllHistory(history) :
            model.rows = updateHistoryTable(histories, history, clock)
    ELSE model.rows = updateTableRows(model.ports, history, clock)

\* C29: k leaves the tracker, the port list and the rows alone.  With an
\* empty list, the cursor outside the list or pid 0 nothing is killed, no
\* scan is started and no error is set.  Otherwise KillProcess is called
\* with the non-zero pid of the entry at the cursor; when it fails the error
\* is kept and no scan is started, when it succeeds one scan is started and
\* the model is left as it was.
C29_KillOutcome ==
    [][lastMsg' = "k" =>
          LET inside == Len(model.ports) > 0 /\ model.cursor < Len(model.ports)
          IN /\ trackerVars' = trackerVars
             /\ model'.ports = model.ports
             /\ model'.rows = model.rows
             /\ pendingTicks' = pendingTicks
             /\ IF call'.op = "KillProcess"
                THEN /\ inside
                     /\ call'.pid # 0
                     /\ call'.pid = model.ports[model.cursor + 1].PID
                     /\ IF call'.ok
                        THEN pendingScans' = pendingScans + 1 /\ model' = model
                        ELSE pendingScans' = pendingScans /\ model'.err = KillErr
                ELSE /\ ~inside \/ model.ports[model.cursor + 1].PID = 0
                     /\ pendingScans' = pendingScans
                     /\ model'.err = model.err]_vars

\* a kill has failed on a listed port; an entry with pid 0 is listed too
C29_Witness ==
    /\ lastMsg = "k"
    /\ call.op = "KillProcess"
    /\ ~call.ok
    /\ model.err = KillErr
    /\ \E i \in DOMAIN model.ports : model.ports[i].PID = 0

\* C31: in every record a Closed event has the pid and the process name of
\* the Opened event right before it in the record's events.
C31_ClosedCarriesOpenedProcess ==
    \A p \in DOMAIN history :
        \A i \in DOMAIN history[p].Events :
            LET evs == history[p].Events
            IN evs[i].EventType = EventPortClosed =>
                 /\ i > 1
                 /\ evs[i - 1].EventType = EventPortOpened
                 /\ evs[i - 1].PID = evs[i].PID
                 /\ evs[i - 1].Process = evs[i].Process
====
